---- MODULE Spec2Model ----
(***************************************************************************)
(* Verdict-dispatch orchestration of agent_one/criteria_runner.py:         *)
(* run_criteria_evaluations_parallel fans evaluate_single_criterion out    *)
(* over a criteria list under an asyncio.Semaphore; every criterion goes   *)
(* retrieval -> judge -> dispatch -> analyzer.  Tasks are cooperative:     *)
(* a task keeps the event loop (cur) until it awaits Runner.run or ends.   *)
(***************************************************************************)
EXTENDS Integers, Sequences, FiniteSets, TLC

\* ---- bounds ----
MaxCriteria == 2
MaxConcurrent == 2

\* ---- schema values (criteria_agents.py) ----
Natures == {"requirement", "prohibition", "descriptor"}

Verdicts == {"yes", "no", "likely yes", "likely no", "unclear", "contradictory"}

Analyzers == {"no_agent", "unclear_agent", "likely_agent", "yes_agent", "contradictory_agent"}

Agents == {"judge_agent"} \cup Analyzers

\* Python None and a raised exception, as values a task can end with
None == [kind |-> "None"]

Raised(type) == [kind |-> "Exception", type |-> type]

\* the output_type of each analyzer agent (analysis_type literal)
OutputTypeOf(agent) ==
    CASE agent = "no_agent" -> "NoCriterionAnalysisOutput"
      [] agent = "unclear_agent" -> "UnclearCriterionAnalysisOutput"
      [] agent = "likely_agent" -> "ProbableOutcomeAnalysisOutput"
      [] agent = "yes_agent" -> "PositiveConfirmationAnalysisOutput"
      [] agent = "contradictory_agent" -> "ContradictoryCriterionAnalysisOutput"

VARIABLES
    criteria_list,          \* sequence of criteria; criterion_id is the index
    caller,                 \* who runs the batch: "direct", "endpoint", "full_evaluation"
    criteria_file,          \* condition of the criteria file the caller names
    handler,                \* position of the caller: "none", "received", "awaiting", "responded"
    response,               \* HTTP response of evaluate_memo_batch_endpoint
    report,                 \* report file in REPORTS_DIR
    logged,                 \* what run_full_evaluation_from_json logged last
    requested,              \* max_concurrent_tasks as the caller passed it
    max_concurrent_tasks,   \* the argument, clamped in place at line 335
    batch,                  \* "called" | "gather" | "returned" | "raised"
    semaphore,              \* asyncio.Semaphore._value
    pc,                     \* position of every criterion task
    cur,                    \* task that holds the event loop, 0 when none
    instructions,           \* agent -> variables formatted into its .instructions
    seen,                   \* criterion -> instructions its running agent read
    judge_output,           \* criterion -> local judge_output of its task
    judged,                 \* criterion -> verdict the Judge run came back with
    dispatch_verdict,       \* criterion -> local dispatch_verdict of its task
    payload,                \* criterion -> variables its task handed to the analyzer
    calls,                  \* criterion -> number of calls made of each kind
    fault,                  \* criterion -> what the environment failed it with, or "none"
    results,                \* criterion -> what its task ended with
    processed_results,      \* the returned list
    hang,                   \* criterion -> agent call of it that never returns, or "none"
    agent_one_instructions, \* agent_one: summary_agent / followup_agent -> .instructions
    run_pc,                 \* agent_one: position of every run(text) call
    original_summary_instructions,   \* agent_one: run -> its local of that name
    original_followup_instructions,  \* agent_one: run -> its local of that name
    run_read,               \* agent_one: run -> instructions its running agent read
    summary_text,           \* agent_one: run -> its local of that name
    file_notes,             \* loader: analyst_notes of every criterion in the file
    current_year,           \* loader: the current_year argument
    returned_notes,         \* loader: analyst_notes of the criteria it returned
    criterion_notes,        \* loader: notes formatted into the judge prompt
    load_pc                 \* loader: "none" | "call" | "loaded" | "judged"

run_vars == <<agent_one_instructions, run_pc, original_summary_instructions,
              original_followup_instructions, run_read, summary_text>>

load_vars == <<file_notes, current_year, returned_notes, criterion_notes, load_pc>>

aside_vars == <<hang, run_vars, load_vars>>

request_vars == <<caller, criteria_file, handler, response, report, logged>>

vars == <<aside_vars, request_vars, criteria_list, requested, max_concurrent_tasks, batch, semaphore, pc, cur,
          instructions, seen, judge_output, judged, dispatch_verdict, payload, calls,
          fault, results, processed_results>>

Ids == 1..Len(criteria_list)

\* ---- pure parts of evaluate_single_criterion ----

\* mutant: the inversion is left out
DispatchVerdictNoInversion(verdict, nature) == verdict

\* mutant: the inversion turns a likely verdict into the opposite plain one
DispatchVerdictLikelyCollapsed(verdict, nature) ==
    IF nature = "prohibition"
    THEN CASE verdict = "yes" -> "no"
           [] verdict = "no" -> "yes"
           [] verdict = "likely yes" -> "no"
           [] verdict = "likely no" -> "yes"
           [] OTHER -> verdict
    ELSE verdict

\* mutant: the inversion is applied whatever the nature
DispatchVerdictAnyNature(verdict, nature) ==
    CASE verdict = "yes" -> "no"
      [] verdict = "no" -> "yes"
      [] verdict = "likely yes" -> "likely no"
      [] verdict = "likely no" -> "likely yes"
      [] OTHER -> verdict

\* lines 270-281
DispatchVerdict(verdict, nature) ==
    IF nature = "prohibition"
    THEN CASE verdict = "yes" -> "no"
           [] verdict = "no" -> "yes"
           [] verdict = "likely yes" -> "likely no"
           [] verdict = "likely no" -> "likely yes"
           [] OTHER -> verdict
    ELSE verdict

\* mutant: the chain has no branch for "contradictory"
AnalyzerForNoContradictory(effective) ==
    CASE effective = "no" -> "no_agent"
      [] effective = "unclear" -> "unclear_agent"
      [] effective \in {"likely yes", "likely no"} -> "likely_agent"
      [] effective = "yes" -> "yes_agent"
      [] OTHER -> "unknown"

\* mutant: the likely branch tests "likely yes" alone
AnalyzerForLikelyYesOnly(effective) ==
    CASE effective = "no" -> "no_agent"
      [] effective = "unclear" -> "unclear_agent"
      [] effective = "likely yes" -> "likely_agent"
      [] effective = "yes" -> "yes_agent"
      [] effective = "contradictory" -> "contradictory_agent"
      [] OTHER -> "unknown"

\* lines 287-304: the branch taken; "unknown" is the else branch
AnalyzerFor(effective) ==
    CASE effective = "no" -> "no_agent"
      [] effective = "unclear" -> "unclear_agent"
      [] effective \in {"likely yes", "likely no"} -> "likely_agent"
      [] effective = "yes" -> "yes_agent"
      [] effective = "contradictory" -> "contradictory_agent"
      [] OTHER -> "unknown"

\* ---- prompts.py ----

\* load_prompt (lines 9-53) gives the template text, or None when the config
\* key or the file is missing; which one is the environment's choice
LoadPromptOutcomes == {[kind |-> "template"], None}

\* format_prompt (lines 80-90): the replace loop runs once per variable, so a
\* None template raises AttributeError unless the variables dict is empty
FormatPrompt(template, nvariables) ==
    IF template = None
    THEN IF nvariables = 0 THEN None ELSE Raised("AttributeError")
    ELSE [kind |-> "prompt"]

\* number of keys of the variables dict each caller builds
NumVariables(prompt_name) ==
    CASE prompt_name = "criteria.summary_report" -> 1
      [] prompt_name = "criteria.judge" -> 3
      [] prompt_name = "criteria.likely" -> 6
      [] OTHER -> 5

\* ---- run_<x>_agent: the variables dict formatted into the prompt ----

\* mutant: run_likely_agent is handed the inverted verdict
AgentVariablesInverted(agent, judge_out) ==
    [agent |-> agent,
     criterion_id |-> judge_out.criterion_id,
     judge_probable_verdict |->
        IF agent = "likely_agent"
        THEN DispatchVerdictAnyNature(judge_out.verdict, "prohibition")
        ELSE "n/a"]

\* lines 112-118, 137-143, 162-168, 188-195, 214-220: every analyzer is handed
\* judge_output.criterion_id; run_likely_agent also judge_output.verdict
AgentVariables(agent, judge_out) ==
    [agent |-> agent,
     criterion_id |-> judge_out.criterion_id,
     judge_probable_verdict |->
        IF agent = "likely_agent" THEN judge_out.verdict ELSE "n/a"]

NoVariables == [agent |-> "none", criterion_id |-> 0, judge_probable_verdict |-> "n/a"]

\* what a well-typed analyzer output carries: the agent answers from the
\* instructions it read, which were formatted from the variables of criterion j
AnalysisOutput(agent, variables) ==
    [kind |-> OutputTypeOf(agent),
     criterion_id |-> variables.criterion_id,
     original_probable_verdict |-> variables.judge_probable_verdict]

\* ---- asyncio.gather and the post-processing loop ----

\* mutant: the outcomes come back last task first
GatherReversed == [i \in Ids |-> results[Len(criteria_list) + 1 - i]]

\* line 346: gather(*tasks, return_exceptions=True) gives the tasks' outcomes
\* by position of the task, exceptions as values
Gather == [i \in Ids |-> results[i]]

\* mutant: gather is called without return_exceptions
ReturnExceptionsUnset == FALSE

\* line 346: the return_exceptions flag of the gather call
ReturnExceptions == TRUE

\* gather re-raises a task's exception unless return_exceptions is set
GatherRaises == ~ReturnExceptions /\ \E i \in Ids : results[i].kind = "Exception"

\* lines 351-358
ProcessResult(res) ==
    IF res.kind = "Exception" THEN None
    ELSE IF res = None THEN None
    ELSE res

\* mutant: the loop skips a failed criterion instead of appending None
ProcessedResultsSkipFailed(gathered) ==
    LET kept == SelectSeq(gathered, LAMBDA r : r.kind # "Exception")
    IN  [i \in DOMAIN kept |-> ProcessResult(kept[i])]

\* lines 348-358
ProcessedResults(gathered) == [i \in DOMAIN gathered |-> ProcessResult(gathered[i])]

\* ---- state machine ----

NatureSeq == <<"requirement", "prohibition", "descriptor">>

\* the criteria lists tried: every length up to MaxCriteria, the natures
\* cycling from any of the three, so that every nature occurs at every index
CriteriaLists ==
    {[i \in 1..n |-> NatureSeq[((first + i - 2) % 3) + 1]] : n \in 0..MaxCriteria, first \in 1..3}

NoCalls == [retriever |-> 0, judge |-> 0, analyzer |-> 0]

\* no response sent yet
NoResponse ==
    [status |-> 0, total_criteria_processed |-> 0, successful_evaluations |-> 0,
     failed_evaluations |-> 0, report_filename |-> "None"]

\* no report file written
NoReport ==
    [filename |-> "None", total_criteria_evaluated |-> 0,
     evaluations_completed_successfully |-> 0, evaluations_failed_or_incomplete |-> 0,
     criterion_evaluations |-> <<>>]

\* an instructions text as load_prompt gave it, with its placeholder
Template == [placeholder |-> TRUE, text |-> 0]

\* agent_one is imported and no run(text) is called (agent.py lines 17-32)
RunIdle ==
    /\ agent_one_instructions = [a \in {"summary_agent", "followup_agent"} |-> Template]
    /\ run_pc = <<>>
    /\ original_summary_instructions = <<>>
    /\ original_followup_instructions = <<>>
    /\ run_read = <<>>
    /\ summary_text = <<>>

\* no criteria file is being looked at note by note
LoadIdle ==
    /\ file_notes = <<>>
    /\ current_year = "none"
    /\ returned_notes = <<>>
    /\ criterion_notes = <<>>
    /\ load_pc = "none"

\* run_criteria_evaluations_parallel called with a criteria list
Init ==
    /\ RunIdle
    /\ LoadIdle
    /\ caller = "direct"
    /\ criteria_file = "list"
    /\ handler = "none"
    /\ response = NoResponse
    /\ report = NoReport
    /\ logged = "none"
    /\ criteria_list \in CriteriaLists
    /\ hang = [i \in Ids |-> "none"]
    /\ requested \in -1..MaxConcurrent
    /\ max_concurrent_tasks = requested
    /\ batch = "called"
    /\ semaphore = 0
    /\ pc = [i \in Ids |-> "pending"]
    /\ cur = 0
    /\ instructions = [a \in Agents |-> NoVariables]
    /\ seen = [i \in Ids |-> NoVariables]
    /\ judge_output = [i \in Ids |-> None]
    /\ judged = [i \in Ids |-> "n/a"]
    /\ dispatch_verdict = [i \in Ids |-> "n/a"]
    /\ payload = [i \in Ids |-> NoVariables]
    /\ calls = [i \in Ids |-> NoCalls]
    /\ fault = [i \in Ids |-> "none"]
    /\ results = [i \in Ids |-> None]
    /\ processed_results = <<>>

\* mutant: an empty criteria list goes through the semaphore and gather too
BatchStartNoEmptyReturn ==
    /\ batch = "called"
    /\ batch' = "gather"
    /\ max_concurrent_tasks' = IF max_concurrent_tasks < 1 THEN 1 ELSE max_concurrent_tasks
    /\ semaphore' = max_concurrent_tasks'
    /\ UNCHANGED <<aside_vars, request_vars, criteria_list, requested, pc, cur, instructions, seen, judge_output,
                   judged, dispatch_verdict, payload, calls, fault, results, processed_results>>

\* mutant: the semaphore is created with the value as passed
BatchStartNoClamp ==
    /\ batch = "called"
    /\ IF Len(criteria_list) = 0
       THEN /\ batch' = "returned"
            /\ UNCHANGED <<max_concurrent_tasks, semaphore>>
       ELSE /\ batch' = "gather"
            /\ max_concurrent_tasks' = max_concurrent_tasks
            /\ semaphore' = max_concurrent_tasks'
    /\ UNCHANGED <<aside_vars, request_vars, criteria_list, requested, pc, cur, instructions, seen, judge_output,
                   judged, dispatch_verdict, payload, calls, fault, results, processed_results>>

\* mutant: the semaphore is created with one permit whatever was asked for
BatchStartOnePermit ==
    /\ batch = "called"
    /\ IF Len(criteria_list) = 0
       THEN /\ batch' = "returned"
            /\ UNCHANGED <<max_concurrent_tasks, semaphore>>
       ELSE /\ batch' = "gather"
            /\ max_concurrent_tasks' = IF max_concurrent_tasks < 1 THEN 1 ELSE max_concurrent_tasks
            /\ semaphore' = 1
    /\ UNCHANGED <<aside_vars, request_vars, criteria_list, requested, pc, cur, instructions,
                   seen, judge_output, judged, dispatch_verdict, payload, calls, fault, results,
                   processed_results>>

\* lines 329-344: empty list returns at once; otherwise clamp, create the
\* semaphore and the tasks
\* mutant: the semaphore is made with one permit more than asked for
BatchStartExtraPermit ==
    /\ batch = "called"
    /\ IF Len(criteria_list) = 0
       THEN /\ batch' = "returned"
            /\ UNCHANGED <<max_concurrent_tasks, semaphore>>
       ELSE /\ batch' = "gather"
            /\ max_concurrent_tasks' = IF max_concurrent_tasks < 1 THEN 1 ELSE max_concurrent_tasks
            /\ semaphore' = max_concurrent_tasks' + 1
    /\ UNCHANGED <<aside_vars, request_vars, criteria_list, requested, pc, cur, instructions, seen, judge_output,
                   judged, dispatch_verdict, payload, calls, fault, results, processed_results>>

BatchStart ==
    /\ batch = "called"
    /\ IF Len(criteria_list) = 0
       THEN /\ batch' = "returned"
            /\ UNCHANGED <<max_concurrent_tasks, semaphore>>
       ELSE /\ batch' = "gather"
            /\ max_concurrent_tasks' = IF max_concurrent_tasks < 1 THEN 1 ELSE max_concurrent_tasks
            /\ semaphore' = max_concurrent_tasks'
    /\ UNCHANGED <<aside_vars, request_vars, criteria_list, requested, pc, cur, instructions, seen, judge_output,
                   judged, dispatch_verdict, payload, calls, fault, results, processed_results>>

\* the first thing the environment failed a criterion with stays its fault
FirstFault(earlier, later) == IF earlier # "none" THEN earlier ELSE later

\* mutant: a criterion that failed is queued again
FinishRequeue(i, value, failed_step) ==
    /\ results' = [results EXCEPT ![i] = value]
    /\ fault' = [fault EXCEPT ![i] = FirstFault(@, failed_step)]
    /\ pc' = [pc EXCEPT ![i] = IF value.kind \in {"None", "Exception"} THEN "pending" ELSE "done"]
    /\ seen' = [seen EXCEPT ![i] = NoVariables]
    /\ judge_output' = [judge_output EXCEPT ![i] = None]
    /\ judged' = [judged EXCEPT ![i] = "n/a"]
    /\ dispatch_verdict' = [dispatch_verdict EXCEPT ![i] = "n/a"]
    /\ payload' = [payload EXCEPT ![i] = NoVariables]
    /\ semaphore' = semaphore + 1
    /\ cur' = 0

\* mutant: a task that ends with a raised error keeps its permit
FinishKeepsPermitOnRaise(i, value, failed_step) ==
    /\ results' = [results EXCEPT ![i] = value]
    /\ fault' = [fault EXCEPT ![i] = FirstFault(@, failed_step)]
    /\ pc' = [pc EXCEPT ![i] = "done"]
    /\ seen' = [seen EXCEPT ![i] = NoVariables]
    /\ judge_output' = [judge_output EXCEPT ![i] = None]
    /\ judged' = [judged EXCEPT ![i] = "n/a"]
    /\ dispatch_verdict' = [dispatch_verdict EXCEPT ![i] = "n/a"]
    /\ payload' = [payload EXCEPT ![i] = NoVariables]
    /\ semaphore' = IF value.kind = "Exception" THEN semaphore ELSE semaphore + 1
    /\ cur' = 0

\* the task of criterion i ends with value (returned or raised): its locals
\* are gone, leaving the async-with block releases the permit (line 318) and
\* the event loop is free again
Finish(i, value, failed_step) ==
    /\ results' = [results EXCEPT ![i] = value]
    /\ fault' = [fault EXCEPT ![i] = FirstFault(@, failed_step)]
    /\ pc' = [pc EXCEPT ![i] = "done"]
    /\ seen' = [seen EXCEPT ![i] = NoVariables]
    /\ judge_output' = [judge_output EXCEPT ![i] = None]
    /\ judged' = [judged EXCEPT ![i] = "n/a"]
    /\ dispatch_verdict' = [dispatch_verdict EXCEPT ![i] = "n/a"]
    /\ payload' = [payload EXCEPT ![i] = NoVariables]
    /\ semaphore' = semaphore + 1
    /\ cur' = 0

\* mutant: the task enters without waiting for a permit
AcquireUnbounded(i) ==
    /\ batch = "gather"
    /\ cur = 0
    /\ pc[i] = "pending"
    /\ \A j \in Ids : j < i => pc[j] # "pending"
    /\ semaphore' = semaphore - 1
    /\ pc' = [pc EXCEPT ![i] = "retrieve"]
    /\ cur' = i
    /\ UNCHANGED <<aside_vars, request_vars, criteria_list, requested, max_concurrent_tasks, batch, instructions, seen,
                   judge_output, judged, dispatch_verdict, payload, calls, fault, results,
                   processed_results>>

\* mutant: the task yields to the event loop at its retrieval call
AcquireYields(i) ==
    /\ batch = "gather"
    /\ cur = 0
    /\ pc[i] = "pending"
    /\ \A j \in Ids : j < i => pc[j] # "pending"
    /\ semaphore > 0
    /\ semaphore' = semaphore - 1
    /\ pc' = [pc EXCEPT ![i] = "retrieve"]
    /\ cur' = 0
    /\ UNCHANGED <<aside_vars, request_vars, criteria_list, requested, max_concurrent_tasks, batch, instructions, seen,
                   judge_output, judged, dispatch_verdict, payload, calls, fault, results,
                   processed_results>>

\* mutant: a waiting task is let in only when two permits are free
AcquireWhenTwoFree(i) ==
    /\ batch = "gather"
    /\ cur = 0
    /\ pc[i] = "pending"
    /\ \A j \in Ids : j < i => pc[j] # "pending"
    /\ semaphore > 1
    /\ semaphore' = semaphore - 1
    /\ pc' = [pc EXCEPT ![i] = "retrieve"]
    /\ cur' = i
    /\ UNCHANGED <<aside_vars, request_vars, criteria_list, requested, max_concurrent_tasks, batch, instructions, seen,
                   judge_output, judged, dispatch_verdict, payload, calls, fault, results,
                   processed_results>>

\* lines 341-346 and 318: the tasks are created and started in list order
\* and the semaphore wakes its waiters first come first served, so the
\* permits go out in list order; a free permit is taken without yielding
Acquire(i) ==
    /\ batch = "gather"
    /\ cur = 0
    /\ pc[i] = "pending"
    /\ \A j \in Ids : j < i => pc[j] # "pending"
    /\ semaphore > 0
    /\ semaphore' = semaphore - 1
    /\ pc' = [pc EXCEPT ![i] = "retrieve"]
    /\ cur' = i
    /\ UNCHANGED <<aside_vars, request_vars, criteria_list, requested, max_concurrent_tasks, batch, instructions, seen,
                   judge_output, judged, dispatch_verdict, payload, calls, fault, results,
                   processed_results>>

\* the environment's part in a task's end: a prompt that did not load
Missing(template, step) == IF template = None THEN step ELSE "none"

\* the environment's part in a task's end: what Runner.run did
RunFault(outcome, agent_kind) ==
    CASE outcome = "raise" -> IF agent_kind = "judge" THEN "judge_raise" ELSE "analyzer_raise"
      [] outcome = "wrong_type" ->
            IF agent_kind = "judge" THEN "judge_wrong_type" ELSE "analyzer_wrong_type"
      [] OTHER -> "none"

\* lines 79-90: run_judge_agent formats the judge prompt from the criterion's
\* context, text and notes
JudgeVariables(criterion_id) ==
    [agent |-> "judge_agent", criterion_id |-> criterion_id, judge_probable_verdict |-> "n/a"]

\* mutant: the error sentinel of the retrieval is not looked at
IsRetrievalErrorIgnored(retrieved_text) == FALSE

\* line 256: summary_retriever answers a failed request with a text that
\* starts with "Error:" (lines 68-75)
IsRetrievalError(retrieved_text) == retrieved_text = "Error:"

\* the environment's part in a task's end: the retrieval request failed
RetrievalFault(retrieved_text) == IF retrieved_text = "Error:" THEN "retrieval" ELSE "none"

\* lines 254-258 and 79-92: the synchronous retrieval, then run_judge_agent up
\* to its await of Runner.run
Retrieve(i) ==
    /\ cur = i
    /\ pc[i] = "retrieve"
    /\ \E summary_template \in LoadPromptOutcomes :
        LET query == FormatPrompt(summary_template, NumVariables("criteria.summary_report"))
            retrieved_once == [calls EXCEPT ![i].retriever = @ + 1]
        IN  IF query.kind = "Exception"
            THEN /\ Finish(i, query, Missing(summary_template, "summary_prompt"))
                 /\ UNCHANGED <<instructions, calls>>
            ELSE \E retrieved \in {"text", "Error:"} :
                 IF IsRetrievalError(retrieved)
                 THEN /\ Finish(i, None, RetrievalFault(retrieved))
                      /\ calls' = retrieved_once
                      /\ UNCHANGED instructions
                 ELSE \E judge_template \in LoadPromptOutcomes :
                      LET formatted_judge_prompt ==
                              FormatPrompt(judge_template, NumVariables("criteria.judge"))
                      IN  IF formatted_judge_prompt.kind = "Exception"
                          THEN /\ Finish(i, formatted_judge_prompt,
                                         FirstFault(RetrievalFault(retrieved),
                                                    Missing(judge_template, "judge_prompt")))
                               /\ calls' = retrieved_once
                               /\ UNCHANGED instructions
                          ELSE IF formatted_judge_prompt = None
                          THEN /\ Finish(i, None,
                                         FirstFault(RetrievalFault(retrieved),
                                                    Missing(judge_template, "judge_prompt")))
                               /\ calls' = retrieved_once
                               /\ UNCHANGED instructions
                          ELSE /\ instructions' = [instructions EXCEPT
                                                     !["judge_agent"] = JudgeVariables(i)]
                               /\ calls' = [retrieved_once EXCEPT ![i].judge = @ + 1]
                               /\ pc' = [pc EXCEPT ![i] = "judge_call"]
                               /\ cur' = 0
                               /\ fault' = [fault EXCEPT ![i] =
                                                FirstFault(@, RetrievalFault(retrieved))]
                               /\ UNCHANGED <<semaphore, results, seen, judge_output,
                                              judged, dispatch_verdict, payload>>
    /\ UNCHANGED <<aside_vars, request_vars, criteria_list, requested, max_concurrent_tasks, batch, processed_results>>

\* the agent a criterion's pending Runner.run was called with
RunningAgent(i) ==
    IF pc[i] \in {"judge_call", "judge_turn"} THEN "judge_agent" ELSE payload[i].agent

\* Runner.run (agents SDK): the run starts its turn in a later event-loop
\* step than the call and only then reads agent.instructions
AgentTurn(i) ==
    /\ cur = 0
    /\ pc[i] \in {"judge_call", "analyzer_call"}
    /\ seen' = [seen EXCEPT ![i] = instructions[RunningAgent(i)]]
    /\ pc' = [pc EXCEPT ![i] = IF pc[i] = "judge_call" THEN "judge_turn" ELSE "analyzer_turn"]
    /\ UNCHANGED <<aside_vars, request_vars, criteria_list, requested, max_concurrent_tasks, batch, semaphore, cur,
                   instructions, judge_output, judged, dispatch_verdict, payload, calls, fault,
                   results, processed_results>>

\* what Runner.run can come back with besides a well-typed final_output: it
\* raises, or its final_output is of another type than the agent's output_type
RunFailures == {"raise", "wrong_type"}

\* mutant: a Judge run that raised is answered with the verdict "unclear"
JudgeResultRaiseAsUnclear(outcome, criterion_id) ==
    CASE outcome = "raise" ->
            [kind |-> "JudgeOutput", verdict |-> "unclear", criterion_id |-> criterion_id]
      [] outcome = "wrong_type" -> Raised("ValueError")
      [] OTHER -> [kind |-> "JudgeOutput", verdict |-> outcome, criterion_id |-> criterion_id]

\* mutant: a final_output that is no JudgeOutput is coerced into a verdict
JudgeResultCoerced(outcome, criterion_id) ==
    CASE outcome = "raise" -> None
      [] outcome = "wrong_type" ->
            [kind |-> "JudgeOutput", verdict |-> "unclear", criterion_id |-> criterion_id]
      [] OTHER -> [kind |-> "JudgeOutput", verdict |-> outcome, criterion_id |-> criterion_id]

\* lines 91-107: run_judge_agent after the await. A raise is caught and gives
\* None; a final_output that is no JudgeOutput raises ValueError; otherwise
\* criterion_id is overwritten (line 98) and the output returned
JudgeResult(outcome, criterion_id) ==
    CASE outcome = "raise" -> None
      [] outcome = "wrong_type" -> Raised("ValueError")
      [] OTHER -> [kind |-> "JudgeOutput", verdict |-> outcome, criterion_id |-> criterion_id]

\* the prompt each run_<x>_agent formats
PromptName(agent) ==
    CASE agent = "no_agent" -> "criteria.no_agent"
      [] agent = "unclear_agent" -> "criteria.unclear"
      [] agent = "likely_agent" -> "criteria.likely"
      [] agent = "yes_agent" -> "criteria.yes_agent"
      [] agent = "contradictory_agent" -> "criteria.contradictory"

\* mutant: the dispatch verdict is written back into the Judge's output
JudgeOutputOverwritten(judge_out, dispatch) == [judge_out EXCEPT !.verdict = dispatch]

\* lines 270-281: dispatch_verdict is a local of its own; judge_output is not
\* assigned to between the Judge's return and the analyzer call
JudgeOutputAfterDispatch(judge_out, dispatch) == judge_out

\* lines 263-304 and the head of run_<x>_agent: the judge came back; dispatch
\* and call the analyzer up to its await of Runner.run
JudgeReturn(i) ==
    /\ cur = 0
    /\ pc[i] = "judge_turn"
    /\ hang[i] # "judge"
    /\ \E outcome \in RunFailures \cup Verdicts :
        LET judge_out == JudgeResult(outcome, i)
        IN  IF judge_out.kind = "Exception"
            THEN /\ Finish(i, judge_out, RunFault(outcome, "judge"))
                 /\ UNCHANGED <<instructions, calls>>
            ELSE IF judge_out = None
            THEN /\ Finish(i, None, RunFault(outcome, "judge"))
                 /\ UNCHANGED <<instructions, calls>>
            ELSE LET dispatch == DispatchVerdict(judge_out.verdict, criteria_list[i])
                     agent == AnalyzerFor(dispatch)
                     called == [calls EXCEPT ![i].analyzer = @ + 1]
                     handed == JudgeOutputAfterDispatch(judge_out, dispatch)
                     judge_fault == RunFault(outcome, "judge")
                 IN  IF agent = "unknown"
                     THEN /\ Finish(i, handed, judge_fault)
                          /\ UNCHANGED <<instructions, calls>>
                     ELSE \E template \in LoadPromptOutcomes :
                          LET formatted == FormatPrompt(template, NumVariables(PromptName(agent)))
                          IN  IF formatted.kind = "Exception"
                              THEN /\ Finish(i, formatted,
                                             FirstFault(judge_fault,
                                                        Missing(template, "analyzer_prompt")))
                                   /\ calls' = called
                                   /\ UNCHANGED instructions
                              ELSE IF formatted = None
                              THEN /\ Finish(i, handed,
                                             FirstFault(judge_fault,
                                                        Missing(template, "analyzer_prompt")))
                                   /\ calls' = called
                                   /\ UNCHANGED instructions
                              ELSE /\ judge_output' = [judge_output EXCEPT ![i] = handed]
                                   /\ judged' = [judged EXCEPT ![i] = outcome]
                                   /\ dispatch_verdict' = [dispatch_verdict EXCEPT ![i] = dispatch]
                                   /\ payload' = [payload EXCEPT ![i] =
                                                     AgentVariables(agent, handed)]
                                   /\ instructions' = [instructions EXCEPT ![agent] =
                                                          AgentVariables(agent, handed)]
                                   /\ calls' = called
                                   /\ fault' = [fault EXCEPT ![i] = FirstFault(@, judge_fault)]
                                   /\ pc' = [pc EXCEPT ![i] = "analyzer_call"]
                                   /\ seen' = [seen EXCEPT ![i] = NoVariables]
                                   /\ UNCHANGED <<semaphore, cur, results>>
    /\ UNCHANGED <<aside_vars, request_vars, criteria_list, requested, max_concurrent_tasks, batch, processed_results>>

\* mutant: a final_output of another type is answered with None, not raised
AnalyzerResultNoneOnWrongType(outcome, agent, variables) ==
    CASE outcome = "raise" -> Raised("RunnerError")
      [] outcome = "wrong_type" -> None
      [] OTHER -> AnalysisOutput(agent, variables)

\* the tail of run_<x>_agent (e.g. lines 178-183): a raise of Runner.run
\* propagates, a final_output of another type raises ValueError
AnalyzerResult(outcome, agent, variables) ==
    CASE outcome = "raise" -> Raised("RunnerError")
      [] outcome = "wrong_type" -> Raised("ValueError")
      [] OTHER -> AnalysisOutput(agent, variables)

\* lines 306-310, then the release at line 318
AnalyzerReturn(i) ==
    /\ cur = 0
    /\ pc[i] = "analyzer_turn"
    /\ hang[i] # "analyzer"
    /\ \E outcome \in RunFailures \cup {"ok"} :
        LET analysis_output == AnalyzerResult(outcome, payload[i].agent, seen[i])
        IN  IF analysis_output.kind = "Exception"
            THEN Finish(i, analysis_output, RunFault(outcome, "analyzer"))
            ELSE IF analysis_output = None
            THEN Finish(i, judge_output[i], RunFault(outcome, "analyzer"))
            ELSE Finish(i, analysis_output, RunFault(outcome, "analyzer"))
    /\ UNCHANGED <<aside_vars, request_vars, criteria_list, requested, max_concurrent_tasks, batch, instructions, calls,
                   processed_results>>

\* mutant: the batch returns as soon as one task is done
BatchReturnFirstCompleted ==
    /\ batch = "gather"
    /\ \E i \in Ids : pc[i] = "done"
    /\ IF GatherRaises
       THEN /\ batch' = "raised"
            /\ UNCHANGED processed_results
       ELSE /\ batch' = "returned"
            /\ processed_results' = ProcessedResults(Gather)
    /\ UNCHANGED <<aside_vars, request_vars, criteria_list, requested, max_concurrent_tasks, semaphore, pc, cur, instructions,
                   seen, judge_output, judged, dispatch_verdict, payload, calls, fault, results>>

\* lines 346-361: gather returns once every task is done
BatchReturn ==
    /\ batch = "gather"
    /\ \A i \in Ids : pc[i] = "done"
    /\ IF GatherRaises
       THEN /\ batch' = "raised"
            /\ UNCHANGED processed_results
       ELSE /\ batch' = "returned"
            /\ processed_results' = ProcessedResults(Gather)
    /\ UNCHANGED <<aside_vars, request_vars, criteria_list, requested, max_concurrent_tasks, semaphore, pc, cur, instructions,
                   seen, judge_output, judged, dispatch_verdict, payload, calls, fault, results>>

Next ==
    \/ BatchStart
    \/ \E i \in Ids : Acquire(i)
    \/ \E i \in Ids : Retrieve(i)
    \/ \E i \in Ids : AgentTurn(i)
    \/ \E i \in Ids : JudgeReturn(i)
    \/ \E i \in Ids : AnalyzerReturn(i)
    \/ BatchReturn

Spec == Init /\ [][Next]_vars

\* ---- agent calls that never return ----

\* the agent call of a criterion that never returns: none, the Judge's
\* Runner.run (line 92) or the analyzer's (for instance line 178)
HangPoints == {"none", "judge", "analyzer"}

\* the batch called in an environment where some agent calls never return
InitHang ==
    /\ RunIdle
    /\ LoadIdle
    /\ caller = "direct"
    /\ criteria_file = "list"
    /\ handler = "none"
    /\ response = NoResponse
    /\ report = NoReport
    /\ logged = "none"
    /\ criteria_list \in CriteriaLists
    /\ hang \in [Ids -> HangPoints]
    /\ requested \in -1..MaxConcurrent
    /\ max_concurrent_tasks = requested
    /\ batch = "called"
    /\ semaphore = 0
    /\ pc = [i \in Ids |-> "pending"]
    /\ cur = 0
    /\ instructions = [a \in Agents |-> NoVariables]
    /\ seen = [i \in Ids |-> NoVariables]
    /\ judge_output = [i \in Ids |-> None]
    /\ judged = [i \in Ids |-> "n/a"]
    /\ dispatch_verdict = [i \in Ids |-> "n/a"]
    /\ payload = [i \in Ids |-> NoVariables]
    /\ calls = [i \in Ids |-> NoCalls]
    /\ fault = [i \in Ids |-> "none"]
    /\ results = [i \in Ids |-> None]
    /\ processed_results = <<>>

\* the event loop runs a task that is ready, and every call that is not one
\* of the hanging ones comes back
SpecHang == InitHang /\ [][Next]_vars /\ WF_vars(Next)

\* ---- the batch endpoint and run_full_evaluation_from_json ----

\* what the named criteria file can be: a JSON list of criteria, absent, no
\* JSON, JSON with another root than a list, a list with an object that is no
\* InputCriterion, a list with an item that is no object, or not readable
FileConditions ==
    {"list", "missing", "bad_json", "not_list", "invalid_item", "item_not_object", "unreadable"}

\* criteria_services.py lines 16-38: FileNotFoundError, JSONDecodeError and
\* ValidationError leave as ValueError, as does a root that is no list;
\* InputCriterion(**item) of an item that is no mapping raises TypeError and
\* open of an unreadable file PermissionError, and neither is caught
LoadCriteriaFromJson(file) ==
    CASE file = "list" -> [kind |-> "list"]
      [] file \in {"missing", "bad_json", "not_list", "invalid_item"} -> Raised("ValueError")
      [] file = "item_not_object" -> Raised("TypeError")
      [] file = "unreadable" -> Raised("PermissionError")

\* agent.py lines 107-115: the except clauses of the endpoint in their order
ExceptStatus(exception_type) ==
    CASE exception_type = "ValueError" -> 400
      [] exception_type = "FileNotFoundError" -> 404
      [] OTHER -> 500

\* an HTTPException carries a status and a detail, no counts
ErrorResponse(http_status) == [NoResponse EXCEPT !.status = http_status]

\* mutant: every entry counts as successful
SuccessfulCountAll(batch_results) == Len(batch_results)

\* agent.py line 63: sum(1 for r in results if r is not None)
SuccessfulCount(batch_results) ==
    Cardinality({i \in 1..Len(batch_results) : batch_results[i] # None})

\* mutant: the criteria that failed get no item
CriterionEvalExportsSkipFailed(criteria, batch_results) ==
    LET kept == {i \in 1..Len(batch_results) : batch_results[i] # None}
        Nth[n \in 0..Len(batch_results)] ==
            IF n = 0 THEN 0 ELSE CHOOSE i \in kept : i > Nth[n - 1] /\ \A j \in kept : j > Nth[n - 1] => i <= j
    IN  [n \in 1..Cardinality(kept) |->
            [criterion_id |-> Nth[n], criterion_text |-> Nth[n],
             evaluation_result |-> batch_results[Nth[n]]]]

\* agent.py lines 75-84: one CriterionEvaluationExportItem per entry of
\* results, with the id and text of the criterion at the same index (a
\* criterion's id and text are its index here)
CriterionEvalExports(criteria, batch_results) ==
    [i \in 1..Len(batch_results) |->
        [criterion_id |-> i, criterion_text |-> i, evaluation_result |-> batch_results[i]]]

\* the request of a caller that loads the criteria file itself
InitRequest ==
    /\ RunIdle
    /\ LoadIdle
    /\ caller \in {"endpoint", "full_evaluation"}
    /\ criteria_file \in FileConditions
    /\ criteria_list \in (IF criteria_file = "list" THEN CriteriaLists ELSE {<<>>})
    /\ hang = [i \in Ids |-> "none"]
    /\ handler = "received"
    /\ response = NoResponse
    /\ report = NoReport
    /\ logged = "none"
    /\ requested \in 1..MaxConcurrent
    /\ max_concurrent_tasks = requested
    /\ batch = "not_called"
    /\ semaphore = 0
    /\ pc = [i \in Ids |-> "pending"]
    /\ cur = 0
    /\ instructions = [a \in Agents |-> NoVariables]
    /\ seen = [i \in Ids |-> NoVariables]
    /\ judge_output = [i \in Ids |-> None]
    /\ judged = [i \in Ids |-> "n/a"]
    /\ dispatch_verdict = [i \in Ids |-> "n/a"]
    /\ payload = [i \in Ids |-> NoVariables]
    /\ calls = [i \in Ids |-> NoCalls]
    /\ fault = [i \in Ids |-> "none"]
    /\ results = [i \in Ids |-> None]
    /\ processed_results = <<>>

batch_vars == <<criteria_list, requested, max_concurrent_tasks, semaphore, pc, cur,
                instructions, seen, judge_output, judged, dispatch_verdict, payload, calls,
                fault, results, processed_results>>

\* mutant: a load error is passed over and the batch is called all the same
EndpointLoadIgnoresError ==
    /\ caller = "endpoint"
    /\ handler = "received"
    /\ handler' = "awaiting"
    /\ batch' = "called"
    /\ UNCHANGED <<aside_vars, caller, criteria_file, response, report, logged, batch_vars>>

\* agent.py lines 49-61 and 107-115: load the criteria; a load error and the
\* HTTPException raised for an empty list (lines 51-55, inside the try) go
\* through the except clauses; otherwise the batch is called
EndpointLoad ==
    /\ caller = "endpoint"
    /\ handler = "received"
    /\ LET loaded == LoadCriteriaFromJson(criteria_file)
       IN  IF loaded.kind = "Exception"
           THEN /\ response' = ErrorResponse(ExceptStatus(loaded.type))
                /\ handler' = "responded"
                /\ UNCHANGED batch
           ELSE IF Len(criteria_list) = 0
           THEN /\ response' = ErrorResponse(ExceptStatus("HTTPException"))
                /\ handler' = "responded"
                /\ UNCHANGED batch
           ELSE /\ handler' = "awaiting"
                /\ batch' = "called"
                /\ UNCHANGED response
    /\ UNCHANGED <<aside_vars, caller, criteria_file, report, logged, batch_vars>>

\* what writing the report file can do (lines 96-97): it is written, the
\* reports directory is gone, or it cannot be written to
WriteOutcomes == {"written", "FileNotFoundError", "PermissionError"}

\* agent.py lines 63-115: count, build and write the report, respond. The
\* response is built without report_filename (lines 99-105)
EndpointRespond ==
    /\ caller = "endpoint"
    /\ handler = "awaiting"
    /\ batch \in {"returned", "raised"}
    /\ handler' = "responded"
    /\ IF batch = "raised"
       THEN /\ response' = ErrorResponse(ExceptStatus("Exception"))
            /\ UNCHANGED report
       ELSE LET successful_count == SuccessfulCount(processed_results)
                failed_count == Len(processed_results) - successful_count
            IN  \E written \in WriteOutcomes :
                    IF written = "written"
                    THEN /\ report' =
                              [filename |-> "report",
                               total_criteria_evaluated |-> Len(criteria_list),
                               evaluations_completed_successfully |-> successful_count,
                               evaluations_failed_or_incomplete |-> failed_count,
                               criterion_evaluations |->
                                   CriterionEvalExports(criteria_list, processed_results)]
                         /\ response' =
                              [status |-> 200,
                               total_criteria_processed |-> Len(criteria_list),
                               successful_evaluations |-> successful_count,
                               failed_evaluations |-> failed_count,
                               report_filename |-> "None"]
                    ELSE /\ response' = ErrorResponse(ExceptStatus(written))
                         /\ UNCHANGED report
    /\ UNCHANGED <<aside_vars, caller, criteria_file, logged, batch, batch_vars>>

\* criteria_runner.py lines 377-391: a ValueError of the loader is logged and
\* the function returns, another exception leaves the function, an empty list
\* is logged as a warning; otherwise the batch is called
FullEvaluationLoad ==
    /\ caller = "full_evaluation"
    /\ handler = "received"
    /\ LET loaded == LoadCriteriaFromJson(criteria_file)
       IN  IF loaded.kind = "Exception"
           THEN /\ logged' = IF loaded.type = "ValueError" THEN "error" ELSE "raised"
                /\ handler' = "responded"
                /\ UNCHANGED batch
           ELSE IF Len(criteria_list) = 0
           THEN /\ logged' = "warning"
                /\ handler' = "responded"
                /\ UNCHANGED batch
           ELSE /\ handler' = "awaiting"
                /\ batch' = "called"
                /\ UNCHANGED logged
    /\ UNCHANGED <<aside_vars, caller, criteria_file, response, report, batch_vars>>

\* criteria_runner.py lines 393-413: the results are logged one by one
FullEvaluationReport ==
    /\ caller = "full_evaluation"
    /\ handler = "awaiting"
    /\ batch \in {"returned", "raised"}
    /\ handler' = "responded"
    /\ logged' = IF batch = "raised" THEN "raised" ELSE "report"
    /\ UNCHANGED <<aside_vars, caller, criteria_file, response, report, batch, batch_vars>>

NextRequest ==
    \/ EndpointLoad
    \/ EndpointRespond
    \/ FullEvaluationLoad
    \/ FullEvaluationReport
    \/ BatchStart
    \/ \E i \in Ids : Acquire(i)
    \/ \E i \in Ids : Retrieve(i)
    \/ \E i \in Ids : AgentTurn(i)
    \/ \E i \in Ids : JudgeReturn(i)
    \/ \E i \in Ids : AnalyzerReturn(i)
    \/ BatchReturn

SpecRequest == InitRequest /\ [][NextRequest]_vars

\* ---- analyst notes from the criteria file to the judge prompt ----

MaxNotes == 2

\* a note is a sequence of words; "{{current_year}}" is the placeholder
Placeholder == "{{current_year}}"

Notes == {<<"text">>, <<"as", "of", Placeholder>>}

Years == {"2019", "2024"}

RECURSIVE SeqsUpTo(_, _)
\* the sequences over a set of up to n elements
SeqsUpTo(set, n) ==
    IF n = 0 THEN {<<>>}
    ELSE LET shorter == SeqsUpTo(set, n - 1)
         IN  shorter \cup {Append(q, x) : q \in {t \in shorter : Len(t) = n - 1}, x \in set}

\* str.replace on a note
Replace(note, old, new) == [k \in 1..Len(note) |-> IF note[k] = old THEN new ELSE note[k]]

\* no batch and no request in progress
BatchIdle ==
    /\ caller = "direct"
    /\ criteria_file = "list"
    /\ handler = "none"
    /\ response = NoResponse
    /\ report = NoReport
    /\ logged = "none"
    /\ criteria_list = <<>>
    /\ hang = <<>>
    /\ requested = 1
    /\ max_concurrent_tasks = 1
    /\ batch = "not_called"
    /\ semaphore = 0
    /\ pc = <<>>
    /\ cur = 0
    /\ instructions = [a \in Agents |-> NoVariables]
    /\ seen = <<>>
    /\ judge_output = <<>>
    /\ judged = <<>>
    /\ dispatch_verdict = <<>>
    /\ payload = <<>>
    /\ calls = <<>>
    /\ fault = <<>>
    /\ results = <<>>
    /\ processed_results = <<>>

\* mutant: the substituted note is stored back into the list
AnalystNotesSubstituted(notes, year) ==
    [n \in 1..Len(notes) |-> Replace(notes[n], Placeholder, year)]

\* criteria_services.py lines 28-30: the loop binds the substituted text to
\* its own variable note and goes on; analyst_notes is not assigned to
AnalystNotesAfterLoop(notes, year) ==
    LET note == [n \in 1..Len(notes) |-> Replace(notes[n], Placeholder, year)]
    IN  notes

\* criteria_runner.py line 82: every note becomes a bullet line of the notes
\* variable of the judge prompt
JudgeNotes(notes) == [n \in 1..Len(notes) |-> <<"*">> \o notes[n]]

\* notes of a criterion not yet formatted into a judge prompt
NotFormatted == [formatted |-> FALSE, notes |-> <<>>]

\* load_criteria_from_json called on a file with these notes
InitLoad ==
    /\ BatchIdle
    /\ RunIdle
    /\ file_notes \in SeqsUpTo(SeqsUpTo(Notes, MaxNotes), MaxCriteria)
    /\ current_year \in Years
    /\ returned_notes = <<>>
    /\ criterion_notes = <<>>
    /\ load_pc = "call"

\* criteria_services.py lines 26-32: the criteria are built from the file's
\* items, the substitution loop runs, the list is returned
LoadNotes ==
    /\ load_pc = "call"
    /\ returned_notes' =
          [c \in 1..Len(file_notes) |-> AnalystNotesAfterLoop(file_notes[c], current_year)]
    /\ criterion_notes' = [c \in 1..Len(file_notes) |-> NotFormatted]
    /\ load_pc' = "loaded"
    /\ UNCHANGED <<hang, run_vars, file_notes, current_year, request_vars, batch, batch_vars>>

\* criteria_runner.py lines 261 and 79-85: the task of criterion c hands
\* criterion.analyst_notes to run_judge_agent, which formats them
FormatJudgeNotes(c) ==
    /\ load_pc \in {"loaded", "judged"}
    /\ ~criterion_notes[c].formatted
    /\ criterion_notes' = [criterion_notes EXCEPT
                              ![c] = [formatted |-> TRUE, notes |-> JudgeNotes(returned_notes[c])]]
    /\ load_pc' = "judged"
    /\ UNCHANGED <<hang, run_vars, file_notes, current_year, returned_notes, request_vars,
                   batch, batch_vars>>

NextLoad ==
    \/ LoadNotes
    \/ \E c \in 1..Len(file_notes) : FormatJudgeNotes(c)

SpecLoad == InitLoad /\ [][NextLoad]_vars

\* ---- agent_one: run(text) ----

MaxRuns == 2

Runs == 1..Len(run_pc)

\* a local that is not assigned yet
Unassigned == [placeholder |-> FALSE, text |-> 0]

\* str.replace of the placeholder: instructions that no longer hold it stay
\* as they are
ReplacePlaceholder(instruction_text, text) ==
    IF instruction_text.placeholder
    THEN [placeholder |-> FALSE, text |-> text]
    ELSE instruction_text

\* run(text) is called up to MaxRuns times, call r with the text r
InitRun ==
    /\ BatchIdle
    /\ LoadIdle
    /\ agent_one_instructions = [a \in {"summary_agent", "followup_agent"} |-> Template]
    /\ run_pc \in {[r \in 1..n |-> "called"] : n \in 1..MaxRuns}
    /\ original_summary_instructions = [r \in Runs |-> Unassigned]
    /\ original_followup_instructions = [r \in Runs |-> Unassigned]
    /\ run_read = [r \in Runs |-> Unassigned]
    /\ summary_text = [r \in Runs |-> 0]

\* runner.py lines 16-18: save the instructions, substitute the text, call
\* Runner.run
RunStart(r) ==
    /\ run_pc[r] = "called"
    /\ original_summary_instructions' =
          [original_summary_instructions EXCEPT ![r] = agent_one_instructions["summary_agent"]]
    /\ agent_one_instructions' =
          [agent_one_instructions EXCEPT
              !["summary_agent"] = ReplacePlaceholder(@, r)]
    /\ run_pc' = [run_pc EXCEPT ![r] = "summary_call"]
    /\ UNCHANGED <<hang, load_vars, request_vars, batch, batch_vars,
                   original_followup_instructions, run_read, summary_text>>

\* Runner.run (agents SDK): the run starts its turn in a later event-loop
\* step than the call and only then reads agent.instructions
RunTurn(r) ==
    /\ run_pc[r] \in {"summary_call", "followup_call"}
    /\ run_read' = [run_read EXCEPT ![r] =
                       IF run_pc[r] = "summary_call"
                       THEN agent_one_instructions["summary_agent"]
                       ELSE agent_one_instructions["followup_agent"]]
    /\ run_pc' = [run_pc EXCEPT ![r] =
                     IF run_pc[r] = "summary_call" THEN "summary_turn" ELSE "followup_turn"]
    /\ UNCHANGED <<hang, load_vars, request_vars, batch, batch_vars, agent_one_instructions,
                   original_summary_instructions, original_followup_instructions, summary_text>>

\* what Runner.run does in the end
RunOutcomes == {"final_output", "raise"}

\* runner.py lines 18-27: the summary run comes back; restore, take the
\* summary (made from the instructions the run read), save and substitute the
\* follow-up instructions, call Runner.run. A raise leaves run at line 18
SummaryReturn(r) ==
    /\ run_pc[r] = "summary_turn"
    /\ \E outcome \in RunOutcomes :
          IF outcome = "raise"
          THEN /\ run_pc' = [run_pc EXCEPT ![r] = "raised"]
               /\ UNCHANGED <<agent_one_instructions, original_followup_instructions,
                              summary_text>>
          ELSE /\ summary_text' = [summary_text EXCEPT ![r] = run_read[r].text]
               /\ original_followup_instructions' =
                     [original_followup_instructions EXCEPT
                         ![r] = agent_one_instructions["followup_agent"]]
               /\ agent_one_instructions' =
                     [agent_one_instructions EXCEPT
                         !["summary_agent"] = original_summary_instructions[r],
                         !["followup_agent"] = ReplacePlaceholder(@, summary_text'[r])]
               /\ run_pc' = [run_pc EXCEPT ![r] = "followup_call"]
    /\ UNCHANGED <<hang, load_vars, request_vars, batch, batch_vars,
                   original_summary_instructions, run_read>>

\* runner.py lines 27-39: the follow-up run comes back; restore and return. A
\* raise leaves run at line 27
FollowupReturn(r) ==
    /\ run_pc[r] = "followup_turn"
    /\ \E outcome \in RunOutcomes :
          IF outcome = "raise"
          THEN /\ run_pc' = [run_pc EXCEPT ![r] = "raised"]
               /\ UNCHANGED agent_one_instructions
          ELSE /\ agent_one_instructions' =
                     [agent_one_instructions EXCEPT
                         !["followup_agent"] = original_followup_instructions[r]]
               /\ run_pc' = [run_pc EXCEPT ![r] = "returned"]
    /\ UNCHANGED <<hang, load_vars, request_vars, batch, batch_vars,
                   original_summary_instructions, original_followup_instructions, run_read,
                   summary_text>>

NextRun ==
    \/ \E r \in Runs : RunStart(r)
    \/ \E r \in Runs : RunTurn(r)
    \/ \E r \in Runs : SummaryReturn(r)
    \/ \E r \in Runs : FollowupReturn(r)

SpecRun == InitRun /\ [][NextRun]_vars

\* ---- properties ----

\* criteria inside the semaphore: between acquiring and releasing
Inside == {i \in Ids : pc[i] \notin {"pending", "done"}}

\* criteria whose analyzer has been called and has not come back
InAnalyzer(i) == pc[i] \in {"analyzer_call", "analyzer_turn"}

AnalysisKinds == {OutputTypeOf(a) : a \in Analyzers}

\* C1: whatever the per-criterion outcomes, the returned list has as many
\* entries as the criteria list
LengthInvariant ==
    batch = "returned" => Len(processed_results) = Len(criteria_list)

LengthWitness ==
    /\ batch = "returned"
    /\ Len(criteria_list) >= 2
    /\ \E i, j \in Ids : /\ results[i].kind = "Exception"
                         /\ results[j].kind \in AnalysisKinds

\* C2: the entry at index i is what the task of criteria_list[i] ended with,
\* in whatever order the tasks went through the semaphore and finished
OrderInvariant ==
    batch = "returned" =>
        \A i \in Ids : processed_results[i] = ProcessResult(results[i])

\* criterion 2 overtook criterion 1 on the way to the same analyzer and the
\* two entries differ
OrderWitness ==
    /\ batch = "returned"
    /\ Len(criteria_list) >= 2
    /\ \E a \in Analyzers : /\ instructions[a].criterion_id = 1
                             /\ processed_results[1].kind = OutputTypeOf(a)
                             /\ processed_results[2].kind = OutputTypeOf(a)
                             /\ processed_results[2].criterion_id = 2
    /\ processed_results[1] # processed_results[2]

\* C3: never more than max_concurrent_tasks criteria are inside the
\* semaphore, and a criterion that holds no permit yet has made no call
ConcurrencyCap ==
    batch = "gather" =>
        /\ Cardinality(Inside) <= max_concurrent_tasks
        /\ \A i \in Ids : pc[i] = "pending" => calls[i] = NoCalls

\* every permit is taken, agents are running and a criterion waits
ConcurrencyCapWitness ==
    /\ batch = "gather"
    /\ Cardinality(Inside) = max_concurrent_tasks
    /\ \E i \in Ids : pc[i] = "pending"
    /\ \E i \in Ids : pc[i] = "judge_turn"

\* C4: the batch call never raises; an entry is None exactly where the
\* criterion failed, and every other entry is the analysis its task returned
FailureIsolation ==
    /\ batch # "raised"
    /\ batch = "returned" =>
        \A i \in Ids :
            /\ fault[i] # "none" => processed_results[i] = None
            /\ fault[i] = "none" => /\ processed_results[i] = results[i]
                                    /\ processed_results[i].kind \in AnalysisKinds

FailureIsolationWitness ==
    /\ batch = "returned"
    /\ Len(criteria_list) >= 2
    /\ \E i, j \in Ids : /\ fault[i] = "judge_wrong_type"
                         /\ results[i].kind = "Exception"
                         /\ fault[j] = "none"
                         /\ processed_results[j].kind \in AnalysisKinds

\* C5: for a prohibition, judge yes goes to the No-Analyzer, no to the
\* Yes-Analyzer, unclear and contradictory to their own analyzers, as they
\* do for a requirement
ProhibitionDispatch ==
    \A i \in Ids : InAnalyzer(i) =>
        LET verdict == judge_output[i].verdict
            agent == payload[i].agent
        IN  /\ criteria_list[i] = "prohibition" =>
                /\ verdict = "yes" => agent = "no_agent"
                /\ verdict = "no" => agent = "yes_agent"
            /\ criteria_list[i] \in {"prohibition", "requirement"} =>
                /\ verdict = "unclear" => agent = "unclear_agent"
                /\ verdict = "contradictory" => agent = "contradictory_agent"

ProhibitionDispatchWitness ==
    \E i \in Ids : /\ InAnalyzer(i)
                   /\ criteria_list[i] = "prohibition"
                   /\ judge_output[i].verdict = "yes"
                   /\ payload[i].agent = "no_agent"

\* C6 as claimed: for a prohibition the Likely-Analyzer is handed the
\* inverted probable verdict
LikelyHandedInverted ==
    \A i \in Ids : (InAnalyzer(i) /\ criteria_list[i] = "prohibition") =>
        /\ judge_output[i].verdict = "likely yes" =>
              (payload[i].agent = "likely_agent"
                 /\ payload[i].judge_probable_verdict = "likely no")
        /\ judge_output[i].verdict = "likely no" =>
              (payload[i].agent = "likely_agent"
                 /\ payload[i].judge_probable_verdict = "likely yes")

\* C6 amended: for a prohibition with a likely verdict the Likely-Analyzer is
\* invoked and is handed the Judge's own verdict, not the inverted one
LikelyHandedOriginal ==
    \A i \in Ids : (InAnalyzer(i) /\ criteria_list[i] = "prohibition"
                      /\ judge_output[i].verdict \in {"likely yes", "likely no"}) =>
        /\ payload[i].agent = "likely_agent"
        /\ payload[i].judge_probable_verdict = judge_output[i].verdict
        /\ dispatch_verdict[i] # judge_output[i].verdict

LikelyHandedWitness ==
    \E i \in Ids : /\ InAnalyzer(i)
                   /\ criteria_list[i] = "prohibition"
                   /\ judge_output[i].verdict = "likely yes"
                   /\ dispatch_verdict[i] = "likely no"
                   /\ payload[i].judge_probable_verdict = "likely yes"

\* C7: the dispatch verdict is defined for every verdict and nature, is one
\* of the six verdicts, and is the Judge verdict unless the nature is
\* prohibition
DispatchTotal ==
    \A i \in Ids :
        /\ InAnalyzer(i) =>
            /\ dispatch_verdict[i] \in Verdicts
            /\ criteria_list[i] \in {"requirement", "descriptor"} =>
                  dispatch_verdict[i] = judge_output[i].verdict
        /\ (pc[i] = "done" /\ calls[i].judge = 1 /\ fault[i] \notin {"judge_raise", "judge_wrong_type"})
              => calls[i].analyzer = 1

DispatchTotalWitness ==
    \E i \in Ids : /\ InAnalyzer(i)
                   /\ criteria_list[i] = "descriptor"
                   /\ judge_output[i].verdict = "likely no"
                   /\ dispatch_verdict[i] = "likely no"

\* the dispatch table of the specification
DispatchTable(effective) ==
    CASE effective = "no" -> "no_agent"
      [] effective = "unclear" -> "unclear_agent"
      [] effective = "likely yes" -> "likely_agent"
      [] effective = "likely no" -> "likely_agent"
      [] effective = "yes" -> "yes_agent"
      [] effective = "contradictory" -> "contradictory_agent"

\* C8: once retrieval and judge succeeded exactly one analyzer is invoked,
\* the one the dispatch table gives for the dispatch verdict, and never a
\* second one
ExactlyOneAnalyzer ==
    \A i \in Ids :
        /\ calls[i].analyzer <= 1
        /\ InAnalyzer(i) => /\ calls[i].analyzer = 1
                            /\ payload[i].agent = DispatchTable(dispatch_verdict[i])
        /\ (pc[i] = "done" /\ calls[i].judge = 1 /\ fault[i] \notin {"judge_raise", "judge_wrong_type"})
              => calls[i].analyzer = 1
        /\ calls[i].judge = 0 => calls[i].analyzer = 0

ExactlyOneAnalyzerWitness ==
    \E i \in Ids : /\ pc[i] = "done"
                   /\ results[i].kind = "ProbableOutcomeAnalysisOutput"
                   /\ calls[i] = [retriever |-> 1, judge |-> 1, analyzer |-> 1]

AnalyzerFailureIsNone ==
    batch = "returned" =>
        \A i \in Ids : fault[i] \in {"analyzer_raise", "analyzer_wrong_type"} =>
            /\ processed_results[i] = None
            /\ results[i].kind = "Exception"

AnalyzerFailureWitness ==
    /\ batch = "returned"
    /\ \E i, j \in Ids : /\ fault[i] = "analyzer_raise"
                         /\ fault[j] = "analyzer_wrong_type"
                         /\ processed_results[i] = None
                         /\ processed_results[j] = None

\* C11: a retrieval that answers with its error sentinel ends the criterion
\* with None after that one retrieval: no Judge, no analyzer, no second
\* retrieval, and the batch entry is None while a criterion nothing failed for
\* still gets its analysis
RetrievalFailureIsNone ==
    /\ \A i \in Ids : fault[i] = "retrieval" =>
          /\ pc[i] = "done"
          /\ results[i] = None
          /\ calls[i] = [retriever |-> 1, judge |-> 0, analyzer |-> 0]
    /\ batch = "returned" =>
          \A i \in Ids : /\ fault[i] = "retrieval" => processed_results[i] = None
                         /\ fault[i] = "none" => processed_results[i].kind \in AnalysisKinds

RetrievalFailureWitness ==
    /\ batch = "returned"
    /\ \E i, j \in Ids : /\ fault[i] = "retrieval"
                         /\ processed_results[i] = None
                         /\ fault[j] = "none"
                         /\ processed_results[j].kind \in AnalysisKinds

\* C12: a Judge run that raises, or whose output is no JudgeOutput, ends the
\* criterion before any analyzer is called and leaves None as the batch
\* entry; the wrong type is raised as ValueError, not turned into a verdict
JudgeFailureIsNone ==
    /\ \A i \in Ids : fault[i] \in {"judge_raise", "judge_wrong_type"} =>
          /\ pc[i] = "done"
          /\ calls[i] = [retriever |-> 1, judge |-> 1, analyzer |-> 0]
          /\ fault[i] = "judge_raise" => results[i] = None
          /\ fault[i] = "judge_wrong_type" => results[i] = Raised("ValueError")
    /\ batch = "returned" =>
          \A i \in Ids : fault[i] \in {"judge_raise", "judge_wrong_type"} =>
              processed_results[i] = None

JudgeFailureWitness ==
    /\ batch = "returned"
    /\ \E i, j \in Ids : /\ fault[i] = "judge_raise"
                         /\ fault[j] = "judge_wrong_type"
                         /\ results[j] = Raised("ValueError")
                         /\ processed_results[i] = None
                         /\ processed_results[j] = None

\* C13 as claimed: with two or more tasks allowed in flight, the agent run
\* of criterion i always reads instructions formatted from criterion i
IsolatedInstructions ==
    max_concurrent_tasks >= 2 =>
        \A i \in Ids : pc[i] \in {"judge_turn", "analyzer_turn"} =>
            seen[i].criterion_id = i

\* C14: an empty criteria list returns an empty list at once: no semaphore,
\* no task, no agent touched
EmptyBatch ==
    Len(criteria_list) = 0 =>
        /\ batch \in {"called", "returned"}
        /\ semaphore = 0
        /\ processed_results = <<>>
        /\ \A a \in Agents : instructions[a] = NoVariables

EmptyBatchWitness ==
    /\ Len(criteria_list) = 0
    /\ batch = "returned"
    /\ max_concurrent_tasks = MaxConcurrent

\* C16: retrieval, Judge and analyzer are each called at most once for a
\* criterion, in that order, whatever failed
AtMostOnce ==
    \A i \in Ids :
        /\ calls[i].retriever <= 1
        /\ calls[i].judge <= calls[i].retriever
        /\ calls[i].analyzer <= calls[i].judge
        /\ (pc[i] = "done" /\ fault[i] # "none") => i \notin Inside

AtMostOnceWitness ==
    /\ batch = "returned"
    /\ \E i, j \in Ids : /\ fault[i] = "judge_raise"
                         /\ calls[i] = [retriever |-> 1, judge |-> 1, analyzer |-> 0]
                         /\ fault[j] = "analyzer_raise"
                         /\ calls[j] = [retriever |-> 1, judge |-> 1, analyzer |-> 1]

\* C20: while the analyzer runs, the judge_output it was handed still holds
\* the verdict the Judge run came back with, also where the dispatch verdict
\* is the inverted one
JudgeOutputUntouched ==
    \A i \in Ids : InAnalyzer(i) =>
        /\ judge_output[i].kind = "JudgeOutput"
        /\ judge_output[i].verdict = judged[i]
        /\ judge_output[i].criterion_id = i
        /\ payload[i].criterion_id = i
        /\ payload[i].agent = "likely_agent" => payload[i].judge_probable_verdict = judged[i]

JudgeOutputUntouchedWitness ==
    \E i \in Ids : /\ InAnalyzer(i)
                   /\ criteria_list[i] = "prohibition"
                   /\ judged[i] = "yes"
                   /\ dispatch_verdict[i] = "no"
                   /\ payload[i].agent = "no_agent"
                   /\ judge_output[i].verdict = "yes"

\* C15: a max_concurrent_tasks below 1 runs the batch as with 1: one permit,
\* never two criteria in flight, never a batch with work left that no task
\* can enter, and the returned list is full length
ClampedToOne ==
    requested < 1 =>
        /\ batch = "gather" =>
              /\ max_concurrent_tasks = 1
              /\ semaphore + Cardinality(Inside) = 1
              /\ (\E i \in Ids : pc[i] # "done") => (semaphore = 1 \/ Inside # {})
        /\ batch = "returned" => Len(processed_results) = Len(criteria_list)
        /\ batch # "raised"

ClampedToOneWitness ==
    /\ requested < 0
    /\ batch = "returned"
    /\ Len(processed_results) = MaxCriteria
    /\ \A i \in Ids : calls[i].retriever = 1

\* C17: a successful response counts the entries that are not None as
\* successful and the None entries as failed, and the two add up to
\* total_criteria_processed, the number of criteria loaded
ResponseCounts ==
    (caller = "endpoint" /\ handler = "responded" /\ response.status = 200) =>
        /\ response.successful_evaluations =
              Cardinality({i \in Ids : processed_results[i] # None})
        /\ response.failed_evaluations =
              Cardinality({i \in Ids : processed_results[i] = None})
        /\ response.successful_evaluations + response.failed_evaluations =
              response.total_criteria_processed
        /\ response.total_criteria_processed = Len(criteria_list)

ResponseCountsWitness ==
    /\ caller = "endpoint"
    /\ handler = "responded"
    /\ response.status = 200
    /\ response.total_criteria_processed = MaxCriteria
    /\ response.successful_evaluations >= 1
    /\ response.failed_evaluations >= 1

\* C18 as claimed: a criteria file that does not exist is answered with 404,
\* malformed or invalid content with 400, any other error with 500
ErrorStatusMapping ==
    (caller = "endpoint" /\ handler = "responded") =>
        /\ criteria_file = "missing" => response.status = 404
        /\ criteria_file \in {"bad_json", "not_list", "invalid_item"} => response.status = 400
        /\ criteria_file = "unreadable" => response.status = 500

\* C19: when the criteria cannot be loaded the caller gets the error (an
\* error status from the endpoint; an error log or the exception from
\* run_full_evaluation_from_json) and the batch is never called: no permit, no
\* agent touched, no report file
LoadFailureStopsBatch ==
    criteria_file # "list" =>
        /\ batch = "not_called"
        /\ semaphore = 0
        /\ \A a \in Agents : instructions[a] = NoVariables
        /\ report = NoReport
        /\ handler \in {"received", "responded"}
        /\ (handler = "responded" /\ caller = "endpoint") => response.status \in {400, 404, 500}
        /\ (handler = "responded" /\ caller = "full_evaluation") => logged \in {"error", "raised"}

LoadFailureWitness ==
    /\ caller = "endpoint"
    /\ criteria_file = "bad_json"
    /\ handler = "responded"
    /\ response.status = 400
    /\ batch = "not_called"
    /\ report = NoReport

\* C21: within a criterion the steps follow one another: the Judge is called
\* only when the retrieval gave a text, an analyzer only when the Judge gave a
\* verdict, and a criterion is at one step at a time
StepOrder ==
    \A i \in Ids :
        /\ pc[i] \in {"pending", "retrieve"} => calls[i] = NoCalls
        /\ pc[i] \in {"judge_call", "judge_turn"} =>
              /\ calls[i] = [retriever |-> 1, judge |-> 1, analyzer |-> 0]
              /\ fault[i] = "none"
              /\ judge_output[i] = None
        /\ InAnalyzer(i) =>
              /\ calls[i] = [retriever |-> 1, judge |-> 1, analyzer |-> 1]
              /\ fault[i] = "none"
              /\ judged[i] \in Verdicts
              /\ dispatch_verdict[i] \in Verdicts

StepOrderWitness ==
    \E i, j \in Ids : /\ pc[i] = "analyzer_turn"
                      /\ calls[i] = [retriever |-> 1, judge |-> 1, analyzer |-> 1]
                      /\ pc[j] = "judge_turn"
                      /\ calls[j] = [retriever |-> 1, judge |-> 1, analyzer |-> 0]

\* C23: a task goes from pending to running only by taking a free permit,
\* from running never back to pending, and once it is done its outcome (an
\* analysis, a Judge verdict, None or a raised error) stays
TaskStateMachine ==
    [][\A i \in 1..MaxCriteria : i \in Ids =>
          /\ pc[i] = "pending" => pc'[i] \in {"pending", "retrieve"}
          /\ (pc[i] = "pending" /\ pc'[i] = "retrieve") =>
                (batch = "gather" /\ semaphore > 0 /\ semaphore' = semaphore - 1)
          /\ pc[i] # "pending" => pc'[i] # "pending"
          /\ pc[i] = "done" => (pc'[i] = "done" /\ results'[i] = results[i])
          /\ (pc[i] # "done" /\ pc'[i] = "done") =>
                /\ i \in Inside
                /\ results'[i].kind \in AnalysisKinds \cup {"JudgeOutput", "None", "Exception"}
                /\ semaphore' = semaphore + 1]_vars

TaskStateMachineWitness ==
    \E i, j \in Ids : /\ pc[i] = "done"
                      /\ results[i].kind = "Exception"
                      /\ pc[j] = "done"
                      /\ results[j].kind \in AnalysisKinds
                      /\ batch = "gather"
                      /\ semaphore = max_concurrent_tasks

\* C25: every Judge verdict and nature give a dispatch verdict that one of the
\* five analyzer branches takes, so no criterion ends in the else branch with
\* the bare Judge verdict
UnknownBranchUnreachable ==
    /\ \A verdict \in Verdicts, nature \in Natures :
          AnalyzerFor(DispatchVerdict(verdict, nature)) \in Analyzers
    /\ \A i \in Ids : (pc[i] = "done" /\ calls[i].analyzer = 0) => results[i].kind # "JudgeOutput"

UnknownBranchWitness ==
    \E i \in Ids : /\ pc[i] = "done"
                   /\ criteria_list[i] = "prohibition"
                   /\ results[i].kind = OutputTypeOf("contradictory_agent")
                   /\ calls[i].analyzer = 1

\* C26 as claimed: every entry of the batch result that is not None carries
\* the criterion_id of the criterion at its index
EntryCarriesOwnId ==
    batch = "returned" =>
        \A i \in Ids : processed_results[i] # None => processed_results[i].criterion_id = i

\* C22 as claimed: a task that is at its retrieval call has yielded, so that
\* the event loop is free for the other tasks
YieldsAtRetrieval ==
    \A i \in Ids : pc[i] = "retrieve" => cur = 0

\* at this position the criterion is in the agent call of it that never
\* returns
StalledAt(i, position) ==
    \/ hang[i] = "judge" /\ position \in {"judge_call", "judge_turn"}
    \/ hang[i] = "analyzer" /\ position \in {"analyzer_call", "analyzer_turn"}

Stalled(i) == StalledAt(i, pc[i])

\* C24: a criterion whose agent call never returns keeps its permit for ever,
\* never more than max_concurrent_tasks criteria are stalled at once, and with
\* two or more permits and one stalled criterion every other criterion still
\* gets a permit and ends
StalledKeepsPermit ==
    /\ [](batch = "gather" =>
            /\ Cardinality({i \in Ids : Stalled(i)}) <= max_concurrent_tasks
            /\ semaphore + Cardinality(Inside) = max_concurrent_tasks)
    /\ [][\A i \in 1..MaxCriteria : (i \in Ids /\ Stalled(i)) =>
            (StalledAt(i, pc'[i]) /\ batch' = "gather" /\ semaphore' < max_concurrent_tasks)]_vars
    /\ \A j \in 1..MaxCriteria :
          []((/\ j \in Ids
              /\ max_concurrent_tasks >= 2
              /\ hang[j] = "none"
              /\ Cardinality({i \in Ids : hang[i] # "none"}) <= 1)
                => <>(j \in Ids /\ pc[j] = "done"))

StalledKeepsPermitWitness ==
    /\ max_concurrent_tasks >= 2
    /\ Len(criteria_list) = MaxCriteria
    /\ \E i \in Ids : /\ Stalled(i)
                      /\ pc[i] = "analyzer_turn"
                      /\ \A j \in Ids \ {i} : pc[j] = "done" /\ hang[j] = "none"
    /\ semaphore = max_concurrent_tasks - 1

\* C27: the report that was written has one item per loaded criterion, in
\* input order, with that criterion's id and text and the batch entry at its
\* index, None included
ReportItems ==
    report # NoReport =>
        /\ Len(report.criterion_evaluations) = Len(criteria_list)
        /\ \A i \in Ids :
              /\ report.criterion_evaluations[i].criterion_id = i
              /\ report.criterion_evaluations[i].criterion_text = i
              /\ report.criterion_evaluations[i].evaluation_result = processed_results[i]

ReportItemsWitness ==
    /\ report # NoReport
    /\ Len(report.criterion_evaluations) = MaxCriteria
    /\ report.criterion_evaluations[1].evaluation_result = None
    /\ report.criterion_evaluations[MaxCriteria].evaluation_result.kind \in AnalysisKinds

\* C29 as claimed: a criteria file that holds an empty list is answered with
\* status 400 and the batch is not called
EmptyListIs400 ==
    (caller = "endpoint" /\ handler = "responded"
        /\ criteria_file = "list" /\ Len(criteria_list) = 0) =>
            /\ response.status = 400
            /\ batch = "not_called"

\* words of a note
Words(note) == {note[k] : k \in 1..Len(note)}

\* C28: the criteria that load_criteria_from_json returns have the notes of
\* the file, whatever current_year is: a {{current_year}} placeholder is
\* still in the returned note and in the bullet line of the judge prompt
NotesUnchanged ==
    load_pc \in {"loaded", "judged"} =>
        /\ returned_notes = file_notes
        /\ \A c \in 1..Len(file_notes) : criterion_notes[c].formatted =>
              /\ Len(criterion_notes[c].notes) = Len(file_notes[c])
              /\ \A n \in 1..Len(file_notes[c]) :
                    /\ Placeholder \in Words(file_notes[c][n]) =>
                          Placeholder \in Words(criterion_notes[c].notes[n])
                    /\ current_year \notin Words(criterion_notes[c].notes[n])

NotesUnchangedWitness ==
    /\ load_pc = "judged"
    /\ current_year = "2024"
    /\ \E c \in 1..Len(file_notes) :
          /\ criterion_notes[c].formatted
          /\ Len(file_notes[c]) = MaxNotes
          /\ \E n \in 1..Len(file_notes[c]) :
                /\ Placeholder \in Words(file_notes[c][n])
                /\ criterion_notes[c].notes[n] = <<"*", "as", "of", Placeholder>>

\* C30 as claimed: once every one of several concurrent run(text) calls has
\* returned, both agents hold their original templates again
InstructionsRestored ==
    (Len(run_pc) >= 2 /\ \A r \in Runs : run_pc[r] = "returned") =>
        /\ agent_one_instructions["summary_agent"] = Template
        /\ agent_one_instructions["followup_agent"] = Template

\* C31 as claimed: the summary run of every run(text) call reads instructions
\* in which the placeholder was replaced by the call's own text, and the
\* call's summary is made from its own text
RunReadsOwnText ==
    \A r \in Runs :
        /\ run_pc[r] = "summary_turn" => run_read[r] = [placeholder |-> FALSE, text |-> r]
        /\ run_pc[r] \in {"followup_call", "followup_turn", "returned"} => summary_text[r] = r

\* C32 as claimed: a run(text) call that ended with a raise of Runner.run
\* leaves both agents' instructions as they were before it, here the
\* templates, no other call having started yet
RaiseRestoresInstructions ==
    \A r \in Runs :
        (run_pc[r] = "raised" /\ \A q \in Runs \ {r} : run_pc[q] = "called") =>
            /\ agent_one_instructions["summary_agent"] = Template
            /\ agent_one_instructions["followup_agent"] = Template

\* C33: the permits are conserved: while the tasks run, the criteria inside
\* the semaphore and the free permits add up to the clamped
\* max_concurrent_tasks, and every way a task ends gives its permit back, so
\* that all permits are free when the batch has returned
PermitsConserved ==
    /\ batch = "gather" =>
        /\ semaphore >= 0
        /\ semaphore + Cardinality(Inside) = max_concurrent_tasks
        /\ max_concurrent_tasks = (IF requested < 1 THEN 1 ELSE requested)
    /\ (batch = "returned" /\ Len(criteria_list) > 0) =>
        /\ Inside = {}
        /\ semaphore = max_concurrent_tasks

\* a batch of two permits has returned with all permits free, one task
\* having returned None and the other having raised
PermitsConservedWitness ==
    /\ batch = "returned"
    /\ max_concurrent_tasks = 2
    /\ semaphore = 2
    /\ \E i, j \in Ids : /\ results[i].kind = "None"
                         /\ results[j].kind = "Exception"

\* every retrieval and agent call of the batch comes back
AllCallsReturn == \A i \in Ids : hang[i] = "none"

\* C34: when every retrieval and agent call returns or raises, then under
\* fair scheduling every criterion reaches its terminal state, none waits
\* for a permit for ever, and the batch call returns, for every list length
\* and every max_concurrent_tasks
BatchTerminates ==
    /\ \A j \in 1..MaxCriteria :
          []((j \in Ids /\ AllCallsReturn) => <>(j \in Ids /\ pc[j] = "done"))
    /\ [](AllCallsReturn => <>(batch = "returned"))

\* a full list went through a single permit, clamped from a value below one,
\* and the batch has returned
BatchTerminatesWitness ==
    /\ AllCallsReturn
    /\ requested < 1
    /\ max_concurrent_tasks = 1
    /\ Len(criteria_list) = MaxCriteria
    /\ batch = "returned"
    /\ \A i \in Ids : pc[i] = "done"

\* C35: the batch call returns only after every criterion task has reached
\* its terminal state, and from the moment one criterion is in an agent call
\* that never returns the batch call never returns, whatever the other
\* criteria do
ReturnsAfterAllTasks ==
    /\ [](batch \in {"returned", "raised"} => \A i \in Ids : pc[i] = "done")
    /\ []((\E i \in Ids : Stalled(i)) => [](batch = "gather"))

\* the Judge call of one criterion never returns, every other criterion of
\* a full list is done, and the batch call is still waiting
ReturnsAfterAllTasksWitness ==
    /\ Len(criteria_list) = MaxCriteria
    /\ batch = "gather"
    /\ \E i \in Ids : /\ hang[i] = "judge"
                      /\ pc[i] = "judge_turn"
                      /\ \A j \in Ids \ {i} : pc[j] = "done" /\ results[j].kind \in AnalysisKinds

\* C36: the retrieval call does not yield, so at most one criterion is at
\* its retrieval at any moment, whatever max_concurrent_tasks is; that
\* criterion has the event loop, and the step taken while it is there is its
\* own: no other criterion moves or makes a call, and the batch call does not
\* return
OneRetrievalAtATime ==
    /\ [](\A i \in Ids : pc[i] = "retrieve" =>
            /\ cur = i
            /\ \A j \in Ids \ {i} : pc[j] # "retrieve")
    /\ [][\A i \in 1..MaxCriteria : (i \in Ids /\ pc[i] = "retrieve") =>
            /\ batch' = batch
            /\ \A j \in Ids \ {i} : /\ pc'[j] = pc[j]
                                    /\ calls'[j] = calls[j]
                                    /\ seen'[j] = seen[j]]_vars

\* with two permits, criterion 2 is at its retrieval while the Judge call of
\* criterion 1 is pending and its run has not had its turn
OneRetrievalAtATimeWitness ==
    /\ max_concurrent_tasks = 2
    /\ Len(criteria_list) = 2
    /\ pc[2] = "retrieve"
    /\ pc[1] = "judge_call"

\* C37: with max_concurrent_tasks = 1 the criteria are evaluated one after
\* the other: at most one is inside the semaphore, the instructions of the
\* agent it has called stay the ones formatted for it until the call is
\* back, and its run reads those
SerialIsolation ==
    (batch = "gather" /\ max_concurrent_tasks = 1) =>
        /\ Cardinality(Inside) <= 1
        /\ \A i \in Ids :
            /\ pc[i] \in {"judge_call", "judge_turn"} =>
                   instructions["judge_agent"] = JudgeVariables(i)
            /\ InAnalyzer(i) =>
                   /\ payload[i].criterion_id = i
                   /\ instructions[payload[i].agent] = payload[i]
            /\ pc[i] \in {"judge_turn", "analyzer_turn"} => seen[i].criterion_id = i

\* with one permit the second criterion's analyzer run has read its
\* instructions, after the first criterion went through the same analyzer
SerialIsolationWitness ==
    /\ batch = "gather"
    /\ max_concurrent_tasks = 1
    /\ Len(criteria_list) = 2
    /\ pc[1] = "done"
    /\ pc[2] = "analyzer_turn"
    /\ results[1].kind = OutputTypeOf(payload[2].agent)
    /\ seen[2] = payload[2]

\* C38 as claimed: the response of a batch request that wrote its report
\* file carries the name of that file in report_filename
ResponseNamesReport ==
    (handler = "responded" /\ response.status = 200 /\ report # NoReport) =>
        response.report_filename = report.filename

LikelyVerdicts == {"likely yes", "likely no"}

\* C39: the inversion applied to prohibition criteria is an involution on
\* the six verdicts, hence a bijection on them, and maps the two likely
\* verdicts onto each other; so for every nature a likely verdict is routed
\* to the Likely-Analyzer, and inverting the dispatched verdict of a
\* prohibition criterion once more gives back the Judge's verdict
InversionInvolution ==
    /\ \A v \in Verdicts :
        /\ DispatchVerdict(v, "prohibition") \in Verdicts
        /\ DispatchVerdict(DispatchVerdict(v, "prohibition"), "prohibition") = v
    /\ {DispatchVerdict(v, "prohibition") : v \in Verdicts} = Verdicts
    /\ \A v, w \in Verdicts :
        DispatchVerdict(v, "prohibition") = DispatchVerdict(w, "prohibition") => v = w
    /\ {DispatchVerdict(v, "prohibition") : v \in LikelyVerdicts} = LikelyVerdicts
    /\ \A v \in LikelyVerdicts : DispatchVerdict(v, "prohibition") # v
    /\ \A nature \in Natures : \A v \in LikelyVerdicts :
        AnalyzerFor(DispatchVerdict(v, nature)) = "likely_agent"
    /\ \A i \in Ids : InAnalyzer(i) =>
        /\ DispatchVerdict(dispatch_verdict[i], criteria_list[i]) = judge_output[i].verdict
        /\ judge_output[i].verdict \in LikelyVerdicts <=> payload[i].agent = "likely_agent"

\* a prohibition criterion judged "likely no" and a criterion of another
\* nature judged "likely yes" are both with the Likely-Analyzer
InversionInvolutionWitness ==
    \E i, j \in Ids :
        /\ InAnalyzer(i) /\ InAnalyzer(j)
        /\ criteria_list[i] = "prohibition" /\ criteria_list[j] # "prohibition"
        /\ judge_output[i].verdict = "likely no" /\ dispatch_verdict[i] = "likely yes"
        /\ judge_output[j].verdict = "likely yes" /\ dispatch_verdict[j] = "likely yes"
        /\ payload[i].agent = "likely_agent" /\ payload[j].agent = "likely_agent"

====
